---- MODULE Spec2Model ----
(***************************************************************************)
(* A model of main.py: three fetch adapters (CryptoScraper, NewsScraper,   *)
(* WeatherScraper), the aggregator AutomationScraper.fetch_all_data and    *)
(* the command-line shell run_automation_scraper.                          *)
(*                                                                         *)
(* Python values are tagged records [t |-> <type>, v |-> <payload>]: a     *)
(* list is [t |-> "list", v |-> <sequence>], a dict is [t |-> "dict",      *)
(* v |-> <set of <<key, value>> pairs>], a str that the code slices or     *)
(* iterates is [t |-> "str", v |-> <sequence of characters>].              *)
(* The outcome of running a block of code is [exc |-> <class or "none">,   *)
(* val |-> <value returned>].                                              *)
(***************************************************************************)
EXTENDS Integers, Sequences, FiniteSets, TLC

VARIABLES
    task,             \* task[a]: position of adapter a's coroutine
    resp,             \* resp[a]: what the network delivered to adapter a so far
    result,           \* result[a]: the value adapter a returned
    escaped,          \* escaped[a]: the exception that left adapter a, or "none"
    calls,            \* calls[a]: how many times adapter a was invoked
    finished,         \* gather: the children whose done-callback ran, in order
    outer,            \* gather: the outer future
    agg_pc,           \* position of fetch_all_data
    agg_ret,          \* the record fetch_all_data returned
    fetch_all_calls,  \* how many times fetch_all_data was invoked
    shell_pc,         \* position of run_automation_scraper
    option_line,      \* the line typed at the menu prompt
    arg_line,         \* the line typed at the topic / location prompt
    stdout,           \* the lines printed so far
    shell_exc         \* the exception that ended the shell, or "none"

vars == <<task, resp, result, escaped, calls, finished, outer, agg_pc, agg_ret,
          fetch_all_calls, shell_pc, option_line, arg_line, stdout, shell_exc>>

adapterVars == <<task, resp, result, escaped, calls>>
aggVars     == <<finished, outer, agg_pc, agg_ret, fetch_all_calls>>
shellVars   == <<shell_pc, option_line, arg_line, stdout, shell_exc>>

----------------------------------------------------------------------------
(* Bounds of the model *)

MaxRows     == 6   \* <tr> elements on a fetched page
MaxArticles == 6   \* entries of an `articles` array
MaxInputLen == 2   \* characters typed at the menu prompt

(* Program constants *)

TopN      == 5     \* the [:5] cutoff
NameCol   == 2     \* cols[2]
PriceCol  == 3     \* cols[3]
StatusOK  == 200   \* response.status == 200

----------------------------------------------------------------------------
(* Python values and outcomes *)

Adapters == {"crypto", "news", "weather"}

PyList(s) == [t |-> "list", v |-> s]
PyDict(d) == [t |-> "dict", v |-> d]
PyStr(s)  == [t |-> "str", v |-> s]
PyNone    == [t |-> "none", v |-> {}]

EmptyList == PyList(<<>>)
EmptyDict == PyDict({})

Return(x) == [exc |-> "none", val |-> x]
Raise(e)  == [exc |-> e, val |-> PyNone]

\* The classes `except Exception` catches: everything raised by the network
\* call, the body reads and the extraction code is one of them.
ExceptionClasses == {"ClientError", "UnicodeDecodeError", "ContentTypeError",
                     "IndexError", "AttributeError", "TypeError", "KeyError",
                     "ValueError"}

Min(a, b) == IF a < b THEN a ELSE b

SliceAll(s, n) == s

\* seq[:n]
Slice(s, n) == SubSeq(s, 1, Min(n, Len(s)))

\* dict lookup: the values stored under key k
Lookup(d, k) == {p[2] : p \in {q \in d : q[1] = k}}
HasKey(d, k) == Lookup(d, k) # {}
Item(d, k)   == CHOOSE x \in Lookup(d, k) : TRUE

----------------------------------------------------------------------------
(* CryptoScraper.fetch_crypto_prices *)

\* A <td>: whether it holds a nested <a>, and that link's text.
NoLink     == [a |-> FALSE, text |-> ""]
Link(s)    == [a |-> TRUE, text |-> s]

CellTextNoDefault(cols, k) ==
    IF k >= Len(cols) THEN Raise("IndexError")
    ELSE IF cols[k + 1].a THEN Return(cols[k + 1].text)
    ELSE Raise("AttributeError")

\* cols[k].find('a').text if cols[k].find('a') else 'N/A'   (k counts from 0)
CellText(cols, k) ==
    IF k >= Len(cols) THEN Raise("IndexError")
    ELSE IF cols[k + 1].a THEN Return(cols[k + 1].text)
    ELSE Return("N/A")

RECURSIVE ExtractRowsSkipShort(_, _, _)
ExtractRowsSkipShort(table_rows, i, crypto_prices) ==
    IF i > Len(table_rows) THEN Return(PyList(crypto_prices))
    ELSE LET cols == table_rows[i] IN
         IF Len(cols) > PriceCol
         THEN ExtractRowsSkipShort(table_rows, i + 1,
                  Append(crypto_prices,
                         [name |-> CellText(cols, NameCol).val,
                          price |-> CellText(cols, PriceCol).val]))
         ELSE ExtractRowsSkipShort(table_rows, i + 1, crypto_prices)

\* The for loop over table_rows, from row i on, with the entries appended so far.
RECURSIVE ExtractRows(_, _, _)
ExtractRows(table_rows, i, crypto_prices) ==
    IF i > Len(table_rows) THEN Return(PyList(crypto_prices))
    ELSE LET cols == table_rows[i] IN
         IF Len(cols) > 0
         THEN LET name == CellText(cols, NameCol) IN
              IF name.exc # "none" THEN Raise(name.exc)
              ELSE LET price == CellText(cols, PriceCol) IN
                   IF price.exc # "none" THEN Raise(price.exc)
                   ELSE ExtractRows(table_rows, i + 1,
                            Append(crypto_prices,
                                   [name |-> name.val, price |-> price.val]))
         ELSE ExtractRows(table_rows, i + 1, crypto_prices)

CryptoTryCutAfter(r) ==
    IF r.transport # "ok" \/ r.body.t = "payload_error" THEN Raise("ClientError")
    ELSE IF r.body.t = "undecodable" THEN Raise("UnicodeDecodeError")
    ELSE LET o == ExtractRows(r.body.rows, 1, <<>>) IN
         IF o.exc # "none" THEN o ELSE Return(PyList(Slice(o.val.v, TopN)))

\* The body of the try block, for a complete response.
CryptoTry(r) ==
    IF r.transport # "ok" \/ r.body.t = "payload_error" THEN Raise("ClientError")
    ELSE IF r.body.t = "undecodable" THEN Raise("UnicodeDecodeError")
    ELSE ExtractRows(Slice(r.body.rows, TopN), 1, <<>>)

----------------------------------------------------------------------------
(* NewsScraper.get_latest_news *)

\* data.get('articles', [])[:5]
NewsTry(r) ==
    IF r.transport # "ok" \/ r.body.t = "payload_error" THEN Raise("ClientError")
    ELSE IF r.body.t = "unparsable" THEN Raise("ContentTypeError")
    ELSE IF r.body.t # "dict" THEN Raise("AttributeError")
    ELSE LET articles == IF r.body.articles.t = "absent" THEN EmptyList
                         ELSE r.body.articles IN
         IF articles.t \in {"list", "str"}
         THEN Return([t |-> articles.t, v |-> Slice(articles.v, TopN)])
         ELSE Raise("TypeError")

----------------------------------------------------------------------------
(* WeatherScraper.get_latest_weather *)

WeatherTryIgnoresStatus(r) ==
    IF r.transport # "ok" \/ r.body.t = "payload_error" THEN Raise("ClientError")
    ELSE IF r.body.t = "unparsable" THEN Raise("ContentTypeError")
    ELSE Return([t |-> r.body.t, v |-> r.body.v])

WeatherTry(r) ==
    IF r.transport # "ok" \/ r.body.t = "payload_error" THEN Raise("ClientError")
    ELSE IF r.body.t = "unparsable" THEN Raise("ContentTypeError")
    ELSE IF r.status = StatusOK THEN Return([t |-> r.body.t, v |-> r.body.v])
    ELSE IF r.body.t # "dict" THEN Raise("AttributeError")
    ELSE Return(EmptyDict)

----------------------------------------------------------------------------
(* The adapters' common shape: try: ... except Exception: return <default> *)

Default(a) == IF a = "weather" THEN EmptyDict ELSE EmptyList

CaughtOnlyClientError(e) == e = "ClientError"

\* except Exception as e
Caught(e) == e \in ExceptionClasses

Handler(a, o) ==
    IF o.exc = "none" THEN o
    ELSE IF Caught(o.exc) THEN Return(Default(a))
    ELSE o

fetch_crypto_prices(r) == Handler("crypto", CryptoTry(r))
get_latest_news(r)     == Handler("news", NewsTry(r))
get_latest_weather(r)  == Handler("weather", WeatherTry(r))

\* The coroutine of adapter a, run on response r.
RunAdapter(a, r) ==
    CASE a = "crypto"  -> fetch_crypto_prices(r)
      [] a = "news"    -> get_latest_news(r)
      [] a = "weather" -> get_latest_weather(r)

----------------------------------------------------------------------------
(* What the network can deliver *)

Statuses == {StatusOK, 404}

\* The rows a page is made of: a header row without <td>, rows too short to
\* index, and rows of four or five cells with and without the nested links.
RowPool ==
    { <<>>,
      <<NoLink>>,
      <<NoLink, NoLink, Link("Bitcoin")>>,
      <<NoLink, NoLink, Link("Bitcoin"), Link("$1")>>,
      <<NoLink, NoLink, NoLink, Link("$2")>>,
      <<NoLink, NoLink, Link("Ethereum"), NoLink, Link("more")>> }

SeqsUpTo(S, n) == UNION {[1..k -> S] : k \in 0..n}

PayloadError == [t |-> "payload_error"]

CryptoBodies ==
    {PayloadError, [t |-> "undecodable"]}
      \cup {[t |-> "html", rows |-> p] : p \in SeqsUpTo(RowPool, MaxRows)}

\* An article object: its 'title' and its 'source', each possibly missing.
Absent      == [t |-> "absent", v |-> {}]
Source(n)   == PyDict({<<"id", "x">>, <<"name", n>>})
Article(ti, so) == PyDict({<<"title", ti>>, <<"source", so>>})
ArticlePool ==
    { Article(PyStr(<<"T", "1">>), Source("BBC")),
      Article(PyStr(<<"T", "2">>), Source("CNN")),
      PyDict({<<"source", Source("BBC")>>}),
      Article(PyStr(<<"T", "3">>), PyNone) }

ArticlesValues ==
    {Absent, PyNone, PyDict({}), PyStr(<<"a", "b", "c", "d", "e", "f">>)}
      \cup {PyList(s) : s \in SeqsUpTo(ArticlePool, MaxArticles)}

NewsBodies ==
    {PayloadError, [t |-> "unparsable"], [t |-> "list"]}
      \cup {[t |-> "dict", articles |-> x] : x \in ArticlesValues}

WeatherBodies ==
    {PayloadError, [t |-> "unparsable"],
     [t |-> "list", v |-> <<>>],
     [t |-> "dict", v |-> {}],
     [t |-> "dict", v |-> {<<"main.temp", "21.5">>}],
     [t |-> "dict", v |-> {<<"message", "city not found">>}],
     [t |-> "dict", v |-> {<<"cod", "200">>, <<"name", "Addis Ababa">>}]}

Bodies(a) ==
    CASE a = "crypto"  -> CryptoBodies
      [] a = "news"    -> NewsBodies
      [] a = "weather" -> WeatherBodies

NoBody == [t |-> "none"]
NoResp == [transport |-> "none", status |-> 0, body |-> NoBody]

----------------------------------------------------------------------------
(* One adapter coroutine: it suspends at session.get and at the body read *)

\* The coroutine ends with outcome o.
Finish(a, o) ==
    /\ task' = [task EXCEPT ![a] = "done"]
    /\ result' = [result EXCEPT ![a] = o.val]
    /\ escaped' = [escaped EXCEPT ![a] = o.exc]

\* The coroutine is created and started.
Invoke(a) ==
    /\ task' = [task EXCEPT ![a] = "await_get"]
    /\ calls' = [calls EXCEPT ![a] = @ + 1]
    /\ UNCHANGED <<resp, result, escaped>>

\* async with session.get(...) as response
AwaitGet(a) ==
    /\ task[a] = "await_get"
    /\ \E tr \in {"ok", "error"}, st \in Statuses :
         LET r == [transport |-> tr, status |-> IF tr = "ok" THEN st ELSE 0,
                   body |-> NoBody] IN
         /\ tr = "error" => st = StatusOK
         /\ resp' = [resp EXCEPT ![a] = r]
         /\ IF tr = "ok"
            THEN /\ task' = [task EXCEPT ![a] = "await_body"]
                 /\ UNCHANGED <<result, escaped>>
            ELSE Finish(a, RunAdapter(a, r))
    /\ UNCHANGED calls
    /\ UNCHANGED <<aggVars, shellVars>>

\* await response.text() / await response.json(), and the code up to the return
AwaitBody(a, B) ==
    /\ task[a] = "await_body"
    /\ \E b \in B :
         LET r == [resp[a] EXCEPT !.body = b] IN
         /\ resp' = [resp EXCEPT ![a] = r]
         /\ Finish(a, RunAdapter(a, r))
    /\ UNCHANGED calls
    /\ UNCHANGED <<aggVars, shellVars>>


----------------------------------------------------------------------------
(* Fixture responses, for the callers that run an adapter as one of several
   steps: a few bodies of every kind the adapters distinguish. *)

A1 == Article(PyStr(<<"T", "1">>), Source("BBC"))
A2 == Article(PyStr(<<"T", "2">>), Source("CNN"))
A3 == PyDict({<<"source", Source("BBC")>>})
A4 == Article(PyStr(<<"T", "3">>), PyNone)

FixtureBodies(a) ==
    CASE a = "crypto" ->
           {PayloadError,
            [t |-> "html", rows |-> <<>>],
            [t |-> "html", rows |->
               << <<>>, <<NoLink, NoLink, Link("Bitcoin"), Link("$1")>>,
                  <<NoLink, NoLink, NoLink, Link("$2")>> >>],
            [t |-> "html", rows |->
               << <<NoLink, NoLink, Link("Bitcoin"), Link("$1")>>,
                  <<NoLink, NoLink, Link("Bitcoin")>> >>]}
      [] a = "news" ->
           {[t |-> "unparsable"],
            [t |-> "dict", articles |-> Absent],
            [t |-> "dict", articles |-> PyStr(<<"a", "b">>)],
            [t |-> "dict", articles |-> PyList(<<>>)],
            [t |-> "dict", articles |-> PyList(<<A1, A2>>)],
            [t |-> "dict", articles |-> PyList(<<A3>>)],
            [t |-> "dict", articles |-> PyList(<<A1, A4>>)]}
      [] a = "weather" -> WeatherBodies

----------------------------------------------------------------------------
(* The state before anything runs *)

InitAdapters ==
    /\ task = [a \in Adapters |-> "idle"]
    /\ resp = [a \in Adapters |-> NoResp]
    /\ result = [a \in Adapters |-> PyNone]
    /\ escaped = [a \in Adapters |-> "none"]
    /\ calls = [a \in Adapters |-> 0]

InitAgg ==
    /\ finished = <<>>
    /\ outer = [state |-> "none", results |-> <<>>, exc |-> "none"]
    /\ agg_pc = "idle"
    /\ agg_ret = [crypto_prices |-> PyNone, news_articles |-> PyNone,
                  weather_data |-> PyNone]
    /\ fetch_all_calls = 0

InitShell ==
    /\ shell_pc = "idle"
    /\ option_line = <<>>
    /\ arg_line = ""
    /\ stdout = <<>>
    /\ shell_exc = "none"

Init == InitAdapters /\ InitAgg /\ InitShell

\* A caller awaits one adapter.
Call(a) ==
    /\ \A b \in Adapters : task[b] = "idle"
    /\ Invoke(a)
    /\ UNCHANGED <<aggVars, shellVars>>

Next == \E a \in Adapters : Call(a) \/ AwaitGet(a) \/ AwaitBody(a, Bodies(a))

Spec == Init /\ [][Next]_vars

----------------------------------------------------------------------------
(* AutomationScraper.fetch_all_data and asyncio.gather *)

\* The order of gather's arguments.
GatherArgs == <<"crypto", "news", "weather">>

GatherReadyFirstCompleted(n) == n >= 1

\* gather: nfinished == nfuts
GatherReady(n) == n = Len(GatherArgs)

GatherResultsInCompletionOrder(done) == [i \in 1..Len(done) |-> result[done[i]]]

\* gather: the children's results, in the order of the arguments
GatherResults(done) == [i \in 1..Len(GatherArgs) |-> result[GatherArgs[i]]]

\* The three coroutines are created, gather wraps them in tasks, and
\* fetch_all_data suspends on the outer future.
FetchAllStart ==
    /\ agg_pc = "idle"
    /\ \A a \in Adapters : task[a] = "idle"
    /\ task' = [a \in Adapters |-> "await_get"]
    /\ calls' = [a \in Adapters |-> calls[a] + 1]
    /\ outer' = [outer EXCEPT !.state = "pending"]
    /\ agg_pc' = "awaiting"
    /\ fetch_all_calls' = fetch_all_calls + 1
    /\ UNCHANGED <<resp, result, escaped, finished, agg_ret, shellVars>>

\* gather's _done_callback for child a.
DoneCallback(a) ==
    /\ outer.state # "none"
    /\ task[a] = "done"
    /\ \A i \in 1..Len(finished) : finished[i] # a
    /\ finished' = Append(finished, a)
    /\ outer' =
         IF outer.state # "pending" THEN outer
         ELSE IF escaped[a] # "none"
              THEN [outer EXCEPT !.state = "exception", !.exc = escaped[a]]
         ELSE IF GatherReady(Len(finished'))
              THEN [outer EXCEPT !.state = "result",
                                 !.results = GatherResults(finished')]
         ELSE outer
    /\ UNCHANGED <<adapterVars, agg_pc, agg_ret, fetch_all_calls, shellVars>>

\* fetch_all_data resumes from the await and unpacks the three results.
FetchAllResume ==
    /\ agg_pc = "awaiting"
    /\ outer.state \in {"result", "exception"}
    /\ IF outer.state = "result" /\ Len(outer.results) = Len(GatherArgs)
       THEN /\ agg_ret' = [crypto_prices |-> outer.results[1],
                           news_articles |-> outer.results[2],
                           weather_data  |-> outer.results[3]]
            /\ agg_pc' = "returned"
       ELSE /\ agg_pc' = "raised"
            /\ UNCHANGED agg_ret
    /\ UNCHANGED <<adapterVars, finished, outer, fetch_all_calls, shellVars>>

NextAgg ==
    \/ FetchAllStart
    \/ \E a \in Adapters : AwaitGet(a)
    \/ \E a \in Adapters : AwaitBody(a, FixtureBodies(a))
    \/ \E a \in Adapters : DoneCallback(a)
    \/ FetchAllResume

SpecAgg == Init /\ [][NextAgg]_vars

----------------------------------------------------------------------------
(* run_automation_scraper *)

Digits == {"0", "1", "2", "3", "9"}
Chars  == Digits \cup {"x", " ", "-"}

MenuInputs == SeqsUpTo(Chars, MaxInputLen)
ArgInputs  == {"technology", "Addis Ababa"}

DigitVal(c) ==
    CASE c = "0" -> 0 [] c = "1" -> 1 [] c = "2" -> 2 [] c = "3" -> 3
      [] c = "9" -> 9

RECURSIVE LStrip(_)
LStrip(s) == IF s # <<>> /\ Head(s) = " " THEN LStrip(Tail(s)) ELSE s

RECURSIVE RStrip(_)
RStrip(s) ==
    IF s # <<>> /\ s[Len(s)] = " " THEN RStrip(SubSeq(s, 1, Len(s) - 1)) ELSE s

RECURSIVE Decimal(_, _)
Decimal(s, acc) ==
    IF s = <<>> THEN acc ELSE Decimal(Tail(s), 10 * acc + DigitVal(Head(s)))

\* int(line): surrounding whitespace is dropped, one sign may lead, and the
\* rest must be one or more digits; anything else is a ValueError.
ParseInt(line) ==
    LET s      == RStrip(LStrip(line))
        neg    == s # <<>> /\ Head(s) = "-"
        digits == IF neg THEN Tail(s) ELSE s
    IN IF digits # <<>> /\ \A i \in 1..Len(digits) : digits[i] \in Digits
       THEN Return(IF neg THEN 0 - Decimal(digits, 0) ELSE Decimal(digits, 0))
       ELSE Raise("ValueError")

Line(f, args) == [fmt |-> f, args |-> args]

Menu == << Line("Welcome to the Automation Scraper!", <<>>),
           Line("Select an option:", <<>>),
           Line("1. Fetch Cryptocurrency Data", <<>>),
           Line("2. Fetch Latest News", <<>>),
           Line("3. Fetch Weather Data", <<>>),
           Line("Enter your choice (1-3): ", <<>>) >>

InvalidInput  == Line("Invalid input. Please enter a number between 1 and 3.", <<>>)
InvalidOption == Line("Invalid option. Please select 1, 2, or 3.", <<>>)

AdapterForSwapped(option) ==
    CASE option = 1 -> "crypto"
      [] option = 2 -> "weather"
      [] option = 3 -> "news"
      [] OTHER -> "none"

\* The if / elif chain on option.
AdapterFor(option) ==
    CASE option = 1 -> "crypto"
      [] option = 2 -> "news"
      [] option = 3 -> "weather"
      [] OTHER -> "none"

\* What printing a returned value does: the lines printed, and the exception
\* that stopped the printing, if any.
Printed(e, ls) == [exc |-> e, lines |-> ls]

\* for crypto in crypto_prices: print(f"{crypto['name']}: {crypto['price']}")
RECURSIVE PrintCrypto(_, _, _)
PrintCrypto(items, i, ls) ==
    IF i > Len(items) THEN Printed("none", ls)
    ELSE PrintCrypto(items, i + 1,
             Append(ls, Line("{name}: {price}",
                             <<items[i].name, items[i].price>>)))

\* f"{article['title']} - {article['source']['name']}"
ArticleLine(article) ==
    IF article.t # "dict" THEN Raise("TypeError")
    ELSE IF ~HasKey(article.v, "title") THEN Raise("KeyError")
    ELSE IF ~HasKey(article.v, "source") THEN Raise("KeyError")
    ELSE LET source == Item(article.v, "source") IN
         IF source.t # "dict" THEN Raise("TypeError")
         ELSE IF ~HasKey(source.v, "name") THEN Raise("KeyError")
         ELSE Return(Line("{title} - {name}",
                          <<Item(article.v, "title"), Item(source.v, "name")>>))

\* for article in news_articles: print(...)
RECURSIVE PrintNews(_, _, _, _)
PrintNews(t, items, i, ls) ==
    IF i > Len(items) THEN Printed("none", ls)
    ELSE LET l == ArticleLine(IF t = "str" THEN PyStr(<<items[i]>>) ELSE items[i])
         IN IF l.exc # "none" THEN Printed(l.exc, ls)
            ELSE PrintNews(t, items, i + 1, Append(ls, l.val))

\* The branch of the if / elif chain for adapter a, after its result arrived.
PrintResult(a, val, arg) ==
    CASE a = "crypto" ->
           PrintCrypto(val.v, 1, <<Line("--- Cryptocurrency Prices ---", <<>>)>>)
      [] a = "news" ->
           PrintNews(val.t, val.v, 1,
                     <<Line("--- Latest News on {topic} ---", <<arg>>)>>)
      [] a = "weather" ->
           Printed("none", <<Line("--- Weather Data for {location} ---", <<arg>>),
                             Line("{weather_data}", <<val>>)>>)

\* The menu is printed and the choice read and converted.
ReadOption ==
    /\ shell_pc = "idle"
    /\ \E line \in MenuInputs :
         /\ option_line' = line
         /\ IF ParseInt(line).exc = "none"
            THEN /\ stdout' = Menu
                 /\ shell_pc' = "dispatch"
            ELSE /\ stdout' = Append(Menu, InvalidInput)
                 /\ shell_pc' = "done"
    /\ UNCHANGED <<arg_line, shell_exc, adapterVars, aggVars>>

\* The if / elif chain: the extra prompt for news and weather, then
\* loop.run_until_complete(<adapter>(...)); or the invalid-option message.
Dispatch ==
    /\ shell_pc = "dispatch"
    /\ LET a == AdapterFor(ParseInt(option_line).val) IN
       IF a \in Adapters
       THEN /\ \E arg \in ArgInputs :
                 /\ a = "crypto" => arg = "technology"
                 /\ arg_line' = IF a = "crypto" THEN arg_line ELSE arg
            /\ Invoke(a)
            /\ shell_pc' = "running"
            /\ stdout' = IF a = "crypto" THEN stdout
                         ELSE Append(stdout, Line("Enter the {parameter}: ", <<a>>))
       ELSE /\ stdout' = Append(stdout, InvalidOption)
            /\ shell_pc' = "done"
            /\ UNCHANGED <<arg_line, adapterVars>>
    /\ UNCHANGED <<option_line, shell_exc, aggVars>>

\* run_until_complete returns (or raises what left the adapter), and the
\* result is printed.
PrintAndExit ==
    /\ shell_pc = "running"
    /\ LET a == AdapterFor(ParseInt(option_line).val) IN
       /\ a \in Adapters
       /\ task[a] = "done"
       /\ LET p == IF escaped[a] # "none" THEN Printed(escaped[a], <<>>)
                   ELSE PrintResult(a, result[a], arg_line) IN
          /\ stdout' = stdout \o p.lines
          /\ shell_exc' = p.exc
          /\ shell_pc' = IF p.exc = "none" THEN "done" ELSE "crashed"
    /\ UNCHANGED <<option_line, arg_line, adapterVars, aggVars>>

NextShell ==
    \/ ReadOption
    \/ Dispatch
    \/ \E a \in Adapters : AwaitGet(a)
    \/ \E a \in Adapters : AwaitBody(a, FixtureBodies(a))
    \/ PrintAndExit

SpecShell == Init /\ [][NextShell]_vars

----------------------------------------------------------------------------
(* Properties of the adapters, checked under Spec *)

Done(a)   == task[a] = "done"
Status(a) == resp[a].status
Body(a)   == resp[a].body

\* The network call itself failed: no connection, or the body read broke off.
TransportFailed(a) == resp[a].transport = "error" \/ Body(a).t = "payload_error"

\* The body arrived but is not text / not JSON.
Unparsable(a) == Body(a).t \in {"undecodable", "unparsable"}

\* A complete, parsed body arrived.
Parsed(a) == Done(a) /\ ~TransportFailed(a) /\ ~Unparsable(a)

\* Row i is one of the first five.
AmongFirstFive(rows, i) == i \in 1..Len(rows) /\ i <= 5

\* A body whose shape makes the extraction raise.
RaisingShape(a) ==
    /\ Parsed(a)
    /\ CASE a = "crypto" ->
              \E i \in 1..Len(Body(a).rows) :
                  AmongFirstFive(Body(a).rows, i) /\ Len(Body(a).rows[i]) \in 1..3
         [] a = "news" ->
              \/ Body(a).t # "dict"
              \/ Body(a).t = "dict" /\ Body(a).articles.t \in {"none", "dict"}
         [] a = "weather" -> Body(a).t # "dict" /\ Status(a) # 200

\* A response arrived, with a status other than 200.
NonSuccess(a) == Done(a) /\ resp[a].transport = "ok" /\ Status(a) # 200

ReturnsValue(a) == escaped[a] = "none" /\ result[a].t \in {"list", "dict", "str"}

FieldOf(cell) == IF cell.a THEN cell.text ELSE "N/A"

FirstFive(rows) == [i \in 1..(IF Len(rows) < 5 THEN Len(rows) ELSE 5) |-> rows[i]]

\* C6: when the first five rows of the fetched page all have at least four
\* cells, the result has one entry per such row (so at most five), in row
\* order, with name and price taken from the links in the cells at index 2
\* and 3, "N/A" standing for a missing link.
C6_WellFormedRows ==
    (Parsed("crypto")
       /\ \A i \in 1..Len(Body("crypto").rows) :
              AmongFirstFive(Body("crypto").rows, i) => Len(Body("crypto").rows[i]) >= 4)
    => LET rows == FirstFive(Body("crypto").rows) IN
       /\ escaped["crypto"] = "none"
       /\ result["crypto"].t = "list"
       /\ Len(result["crypto"].v) = Len(rows)
       /\ Len(result["crypto"].v) <= 5
       /\ \A i \in 1..Len(rows) :
              result["crypto"].v[i] =
                  [name |-> FieldOf(rows[i][3]), price |-> FieldOf(rows[i][4])]

C6_Witness ==
    /\ Parsed("crypto")
    /\ Len(Body("crypto").rows) = 6
    /\ \A i \in 1..5 : Len(Body("crypto").rows[i]) >= 4
    /\ Len(result["crypto"].v) = 5
    /\ result["crypto"].v[1] = [name |-> "N/A", price |-> "$2"]
    /\ result["crypto"].v[2] = [name |-> "Ethereum", price |-> "N/A"]
    /\ result["crypto"].v[3] = [name |-> "Bitcoin", price |-> "$1"]

\* C7: an `articles` array of n objects gives its first min(n, 5) objects, in
\* order and unchanged; a body without the `articles` key gives the empty
\* sequence, and nothing is raised.
C7_FirstFiveArticles ==
    (Parsed("news") /\ Body("news").t = "dict") =>
        LET articles == Body("news").articles IN
        /\ articles.t = "list" =>
             /\ escaped["news"] = "none"
             /\ result["news"].t = "list"
             /\ Len(result["news"].v)
                  = (IF Len(articles.v) < 5 THEN Len(articles.v) ELSE 5)
             /\ \A i \in 1..Len(result["news"].v) : result["news"].v[i] = articles.v[i]
        /\ articles.t = "absent" =>
             escaped["news"] = "none" /\ result["news"] = EmptyList

C7_Witness ==
    /\ Parsed("news") /\ Body("news").t = "dict"
    /\ Body("news").articles.t = "list"
    /\ Len(Body("news").articles.v) = 6
    /\ Body("news").articles.v[5] # Body("news").articles.v[6]
    /\ Body("news").articles.v[1] # Body("news").articles.v[2]
    /\ Len(result["news"].v) = 5

\* C8: at status 200 the weather adapter returns the parsed body unchanged; at
\* any other status it returns the empty mapping, whatever the body holds.
C8_WeatherByStatus ==
    (Done("weather") /\ resp["weather"].transport = "ok") =>
        /\ (Status("weather") = 200 /\ Parsed("weather")) =>
              /\ escaped["weather"] = "none"
              /\ result["weather"] = [t |-> Body("weather").t, v |-> Body("weather").v]
        /\ Status("weather") # 200 =>
              escaped["weather"] = "none" /\ result["weather"] = EmptyDict

C8_Witness ==
    /\ Done("weather") /\ Status("weather") = 404
    /\ Parsed("weather") /\ Body("weather").t = "dict"
    /\ Body("weather").v = {<<"message", "city not found">>}
    /\ result["weather"] = EmptyDict

\* C9: a row with one, two or three cells among the first five makes the
\* crypto adapter return the empty sequence, whatever the rows before it gave.
C9_AllOrNothing ==
    (Parsed("crypto")
       /\ \E i \in 1..Len(Body("crypto").rows) :
              AmongFirstFive(Body("crypto").rows, i)
                /\ Len(Body("crypto").rows[i]) \in 1..3)
    => escaped["crypto"] = "none" /\ result["crypto"] = EmptyList

C9_Witness ==
    /\ Parsed("crypto")
    /\ Len(Body("crypto").rows) >= 5
    /\ \A i \in 1..4 : Len(Body("crypto").rows[i]) >= 4
    /\ Len(Body("crypto").rows[5]) = 3
    /\ result["crypto"] = EmptyList

HasCells(row) == Len(row) > 0

----------------------------------------------------------------------------
(* Properties of fetch_all_data, checked under SpecAgg *)

\* C2: each field of the record fetch_all_data returns is what its own
\* adapter returned, whichever adapters failed and in whatever order the
\* three completed.
C2_FieldsFromOwnAdapter ==
    agg_pc = "returned" =>
        /\ agg_ret.crypto_prices = result["crypto"]
        /\ agg_ret.news_articles = result["news"]
        /\ agg_ret.weather_data  = result["weather"]

C2_Witness ==
    /\ agg_pc = "returned"
    /\ resp["crypto"].transport = "error"
    /\ agg_ret.crypto_prices = EmptyList
    /\ agg_ret.news_articles = PyList(<<A1, A2>>)
    /\ agg_ret.weather_data = PyDict({<<"main.temp", "21.5">>})
    /\ finished = <<"weather", "crypto", "news">>

\* C3: fetch_all_data is past its await only when all three adapters have
\* run to completion, each invoked once; it never ends with an error, and the
\* outer future resolves only after the last child's callback.
C3_WaitsForAll ==
    /\ agg_pc # "raised"
    /\ outer.state \in {"result", "exception"} =>
           \A a \in Adapters : Done(a) /\ \E i \in 1..Len(finished) : finished[i] = a
    /\ agg_pc = "returned" =>
           \A a \in Adapters : Done(a) /\ calls[a] = 1 /\ ReturnsValue(a)

C3_Witness ==
    /\ agg_pc = "returned"
    /\ finished = <<"news", "weather", "crypto">>
    /\ TransportFailed("news")
    /\ result["crypto"] # EmptyList

----------------------------------------------------------------------------
(* Properties of run_automation_scraper, checked under SpecShell *)

Ended == shell_pc \in {"done", "crashed"}

Shows(l) == \E i \in 1..Len(stdout) : stdout[i] = l

Prompts == Cardinality({i \in 1..Len(stdout) : stdout[i] = Menu[Len(Menu)]})

OnlyInvoked(S) == \A a \in Adapters : calls[a] = (IF a \in S THEN 1 ELSE 0)

\* C4: a non-integer choice prints the invalid-input message and invokes no
\* adapter; an integer outside 1..3 prints the invalid-option message and
\* invokes none; 1, 2, 3 invoke the crypto, news, weather adapter, that one
\* only and once; fetch_all_data is never invoked, and the menu is asked once.
C4_OneChoiceOneAdapter ==
    /\ fetch_all_calls = 0
    /\ agg_pc = "idle"
    /\ Prompts <= 1
    /\ \A a \in Adapters : calls[a] <= 1
    /\ Ended =>
         LET o == ParseInt(option_line) IN
         /\ Prompts = 1
         /\ o.exc # "none" => Shows(InvalidInput) /\ OnlyInvoked({})
         /\ (o.exc = "none" /\ o.val \notin 1..3) =>
                Shows(InvalidOption) /\ OnlyInvoked({})
         /\ (o.exc = "none" /\ o.val = 1) => OnlyInvoked({"crypto"})
         /\ (o.exc = "none" /\ o.val = 2) => OnlyInvoked({"news"})
         /\ (o.exc = "none" /\ o.val = 3) => OnlyInvoked({"weather"})
         /\ option_line = <<"x">> => Shows(InvalidInput) /\ OnlyInvoked({})
         /\ option_line = <<"9">> => Shows(InvalidOption) /\ OnlyInvoked({})
         /\ option_line = <<"2">> => OnlyInvoked({"news"})
         /\ option_line = <<" ", "3">> => OnlyInvoked({"weather"})
         /\ option_line = <<"-", "1">> => Shows(InvalidOption) /\ OnlyInvoked({})

C4_Witness ==
    /\ shell_pc = "done"
    /\ option_line = <<"2">>
    /\ calls = [a \in Adapters |-> IF a = "news" THEN 1 ELSE 0]
    /\ result["news"] = PyList(<<A1, A2>>)
    /\ ~Shows(InvalidInput) /\ ~Shows(InvalidOption)

\* C5: whatever the invoked adapter returns, the shell prints it and ends
\* normally: no run is ended by an unhandled error.
C5_ShellNeverAborts == shell_pc # "crashed" /\ shell_exc = "none"

====
